---- MODULE Spec2Model ----
(***************************************************************************)
(* Model of the FX + Crypto aggregation backend (src/app.py): the          *)
(* process-local TTL cache, the two aggregators get_fiat_rates and         *)
(* get_crypto_simple, and the route handlers /health, /rates, /fx and      *)
(* /crypto running as concurrent asyncio tasks.                            *)
(*                                                                         *)
(* Strings are sequences of one-character strings, so that upper(),        *)
(* lower(), strip(), split(","), sorted() and ",".join() are computed the  *)
(* way Python computes them.  JSON values coming from the upstream         *)
(* providers are tagged records.                                           *)
(***************************************************************************)
EXTENDS Integers, Sequences, FiniteSets, TLC

(***************************************************************************)
(* Characters and strings                                                  *)
(***************************************************************************)

\* The characters of the model in ASCII (code point) order: Python compares
\* strings by code point, so position in this tuple is the ordering key.
AsciiOrder ==
    << " ", ",", ":",
       "A", "B", "C", "D", "E", "F", "G", "H", "I", "J", "K", "L", "M",
       "N", "O", "P", "Q", "R", "S", "T", "U", "V", "W", "X", "Y", "Z",
       "a", "b", "c", "d", "e", "f", "g", "h", "i", "j", "k", "l", "m",
       "n", "o", "p", "q", "r", "s", "t", "u", "v", "w", "x", "y", "z",
       "|" >>

Ord(c) == CHOOSE i \in 1..Len(AsciiOrder) : AsciiOrder[i] = c

IsUpperChar(c) == Ord(c) >= Ord("A") /\ Ord(c) <= Ord("Z")
IsLowerChar(c) == Ord(c) >= Ord("a") /\ Ord(c) <= Ord("z")

UpperChar(c) == IF IsLowerChar(c) THEN AsciiOrder[Ord(c) - Ord("a") + Ord("A")] ELSE c
LowerChar(c) == IF IsUpperChar(c) THEN AsciiOrder[Ord(c) - Ord("A") + Ord("a")] ELSE c

\* str.upper() / str.lower()
Upper(s) == [i \in 1..Len(s) |-> UpperChar(s[i])]
Lower(s) == [i \in 1..Len(s) |-> LowerChar(s[i])]

\* str.strip(): drop leading and trailing whitespace
RECURSIVE LStrip(_)
LStrip(s) == IF s # << >> /\ Head(s) = " " THEN LStrip(Tail(s)) ELSE s

RECURSIVE RStrip(_)
RStrip(s) ==
    IF s # << >> /\ s[Len(s)] = " " THEN RStrip(SubSeq(s, 1, Len(s) - 1)) ELSE s

Strip(s) == RStrip(LStrip(s))

\* str.split(","): the list of the pieces between commas (never empty)
RECURSIVE SplitFrom(_, _)
SplitFrom(s, cur) ==
    IF s = << >> THEN << cur >>
    ELSE IF Head(s) = "," THEN << cur >> \o SplitFrom(Tail(s), << >>)
    ELSE SplitFrom(Tail(s), Append(cur, Head(s)))

Split(s) == SplitFrom(s, << >>)

\* Python's < on strings: lexicographic by code point, a proper prefix first
RECURSIVE StrLess(_, _)
StrLess(a, b) ==
    IF b = << >> THEN FALSE
    ELSE IF a = << >> THEN TRUE
    ELSE IF Head(a) # Head(b) THEN Ord(Head(a)) < Ord(Head(b))
    ELSE StrLess(Tail(a), Tail(b))

\* sorted(list of strings): insertion of each element into a sorted list
RECURSIVE Insert(_, _)
Insert(x, l) ==
    IF l = << >> THEN << x >>
    ELSE IF StrLess(x, Head(l)) THEN << x >> \o l
    ELSE << Head(l) >> \o Insert(x, Tail(l))

RECURSIVE Sorted(_)
Sorted(l) == IF l = << >> THEN << >> ELSE Insert(Head(l), Sorted(Tail(l)))

\* ",".join(list of strings)
RECURSIVE Join(_)
Join(l) ==
    IF l = << >> THEN << >>
    ELSE IF Len(l) = 1 THEN Head(l)
    ELSE Head(l) \o << "," >> \o Join(Tail(l))

\* [c.strip() for c in s.split(",") if c.strip()]
RECURSIVE StripNonEmpty(_)
StripNonEmpty(l) ==
    IF l = << >> THEN << >>
    ELSE IF Strip(Head(l)) # << >>
         THEN << Strip(Head(l)) >> \o StripNonEmpty(Tail(l))
         ELSE StripNonEmpty(Tail(l))

ParseList(s) == StripNonEmpty(Split(s))

\* [c.lower() for c in l]
LowerAll(l) == [i \in 1..Len(l) |-> Lower(l[i])]


(***************************************************************************)
(* JSON values as the upstream providers may return them.  Every value is  *)
(* a record [t, n, m]: t is the JSON type, n the number (or the length of  *)
(* a list), m the key -> value mapping of an object.                       *)
(***************************************************************************)

JNull    == [t |-> "null", n |-> 0, m |-> << >>]
JNum(k)  == [t |-> "num",  n |-> k, m |-> << >>]
JList(k) == [t |-> "list", n |-> k, m |-> << >>]
JMap(f)  == [t |-> "map",  n |-> 0, m |-> f]

\* Python truthiness, as used by `not rates` and `not data`
Truthy(v) ==
    CASE v.t = "null" -> FALSE
      [] v.t = "num"  -> v.n # 0
      [] v.t = "list" -> v.n # 0
      [] v.t = "map"  -> DOMAIN v.m # {}

\* isinstance(v, dict)
IsDict(v) == v.t = "map"

\* dict.get(key): the value, or None when the key is absent
DictGet(v, key) == IF key \in DOMAIN v.m THEN v.m[key] ELSE JNull

\* `key in v` is defined for containers only (TypeError otherwise); the lists
\* of the model hold numbers, so no string is an element of one.
SupportsIn(v) == v.t \in {"map", "list"}
In(key, v) == v.t = "map" /\ key \in DOMAIN v.m

\* `amount * rate` with a float amount is defined for numbers only
IsNumber(v) == v.t = "num"

sUSD == << "U", "S", "D" >>
susd == << "u", "s", "d" >>
sEUR == << "E", "U", "R" >>
sNGN == << "N", "G", "N" >>
sngn == << "n", "g", "n" >>
sZZZ == << "Z", "Z", "Z" >>
sbtc == << "b", "t", "c" >>
seth == << "e", "t", "h" >>
sRates == << "r", "a", "t", "e", "s" >>

(***************************************************************************)
(* Program constants                                                       *)
(***************************************************************************)

FX_MAX_AGE == 1800
CG_MAX_AGE == 60

HTTP_OK == 200
HTTP_BAD_REQUEST == 400
HTTP_INTERNAL_ERROR == 500
HTTP_BAD_GATEWAY == 502

(***************************************************************************)
(* Bounds of the model and the inputs the environment draws from           *)
(***************************************************************************)

MaxReqs == 2

\* One task per inbound request: at most MaxReqs tasks exist at a time
Tasks == 1..MaxReqs

\* The instants the clock is observed at: one second after the start, and
\* exactly on each max-age of an entry written at time 0 (one second short of
\* it for an entry written at time 1)
Instants == {1, CG_MAX_AGE, FX_MAX_AGE}

\* /rates?base=...
Bases == { sUSD, susd }

\* /fx?base=...&to=...&amount=...: a target the provider quotes and one it
\* does not, the base in either case
FxQueries ==
    { [base |-> susd, to |-> sngn, amount |-> 100],
      [base |-> sUSD, to |-> sZZZ, amount |-> 100] }

\* /crypto?coins=...&vs=...: the same coins and currencies, in two orders and
\* two spellings
CryptoQueries ==
    { [coins |-> << "b", "t", "c", ",", "e", "t", "h" >>,
       vs    |-> << "u", "s", "d", ",", "n", "g", "n" >>],
      [coins |-> << "E", "T", "H", ",", " ", "b", "t", "c" >>,
       vs    |-> << "N", "G", "N", ",", "u", "s", "d" >>] }

\* What the exchange-rate provider may answer
FiatBodies ==
    { JList(1),
      JMap(<< >>),
      JMap(sRates :> JNull),
      JMap(sRates :> JMap(<< >>)),
      JMap(sRates :> JNum(5)),
      JMap(sRates :> JMap(sNGN :> JNum(1500))),
      JMap(sRates :> JMap(sNGN :> JNum(1600))) }

\* What the crypto-price provider may answer
CryptoBodies ==
    { JList(1),
      JMap(<< >>),
      JMap(sbtc :> JMap(susd :> JNum(7))),
      JMap(sbtc :> JMap(susd :> JNum(8)) @@ seth :> JMap(susd :> JNum(3))) }

\* fetch_json either raises (connect error, timeout, non-2xx status, undecodable
\* body) or returns the decoded JSON body.
FetchRaised == [ok |-> FALSE, json |-> JNull]
FetchReturned(j) == [ok |-> TRUE, json |-> j]

FiatOutcomes == { FetchRaised } \cup { FetchReturned(j) : j \in FiatBodies }
CryptoOutcomes == { FetchRaised } \cup { FetchReturned(j) : j \in CryptoBodies }

(***************************************************************************)
(* State                                                                   *)
(***************************************************************************)

VARIABLES
    now,      \* the wall clock read by time.time(), in seconds
    store,    \* TTLCache.store: key -> [ts, data]
    pc,       \* per task: "idle" or "fetch" (suspended in fetch_json)
    req,      \* per task: the request being handled while suspended
    obs,      \* per task: what the aggregator did for the request so far
    last,     \* the request that finished last: [req, resp, obs, data]
    nreq,     \* number of requests started (bounds the model)
    served,   \* history: key -> payload last returned by an aggregator
    writer    \* history: key -> the query whose fetch last wrote the entry

vars == << now, store, pc, req, obs, last, nreq, served, writer >>

\* Python's None, as returned by TTLCache.get on a miss
None == [none |-> TRUE]

NoReq ==
    [route |-> "none", base |-> << >>, to |-> << >>, amount |-> 0,
     coins |-> << >>, vs |-> << >>]
HealthReq == [NoReq EXCEPT !.route = "health"]
RatesReq(b) == [NoReq EXCEPT !.route = "rates", !.base = b]
FxReq(b, to, a) == [NoReq EXCEPT !.route = "fx", !.base = b, !.to = to, !.amount = a]
CryptoReq(c, v) == [NoReq EXCEPT !.route = "crypto", !.coins = c, !.vs = v]

\* What a request asks its aggregator for: the base, or the coins and currencies
QueryOf(r) ==
    [NoReq EXCEPT !.route = IF r.route = "crypto" THEN "crypto" ELSE "fiat",
                  !.base = r.base, !.coins = r.coins, !.vs = r.vs]

NoTs == -1
NoResp == [status |-> 0, body |-> None]
\* key: the cache key computed; hit: served from the cache; stale: the timestamp
\* of the entry found too old at the read (NoTs if none); fetches: fetches issued
NoObs == [key |-> << >>, hit |-> FALSE, stale |-> NoTs, fetches |-> 0]

(***************************************************************************)
(* TTLCache                                                                *)
(***************************************************************************)

\* Variant of Get: an entry exactly max_age old is still served
GetInclusive(s, key, max_age, t) ==
    IF key \in DOMAIN s /\ t - s[key].ts <= max_age THEN s[key].data ELSE None

\* Variant of Get: a hit re-stamps the payload with the time of the read
GetRestamped(s, key, max_age, t) ==
    IF key \in DOMAIN s /\ t - s[key].ts < max_age
    THEN [s[key].data EXCEPT !.ts = t] ELSE None

\* Variant of Get: the age is measured from the ts field of the payload
GetByPayloadTs(s, key, max_age, t) ==
    IF key \in DOMAIN s /\ t - s[key].data.ts < max_age THEN s[key].data ELSE None

\* TTLCache.get(key, max_age) in store s at time t
Get(s, key, max_age, t) ==
    IF key \in DOMAIN s /\ t - s[key].ts < max_age THEN s[key].data ELSE None

\* Variant of Set: an existing entry keeps its old timestamp
SetKeepingTs(s, key, data, t) ==
    [k \in DOMAIN s \cup {key} |->
        IF k = key
        THEN [ts |-> IF key \in DOMAIN s THEN s[key].ts ELSE t, data |-> data]
        ELSE s[k]]

\* Variant of Set: a write also sweeps out the other entries that are at
\* least the shorter max-age old
SetEvicting(s, key, data, t) ==
    [k \in {j \in DOMAIN s : t - s[j].ts < CG_MAX_AGE} \cup {key} |->
        IF k = key THEN [ts |-> t, data |-> data] ELSE s[k]]

\* Variant of Set: an existing entry is updated in place, field by field, and
\* keeps the ts field of the payload it held
SetMerged(s, key, data, t) ==
    [k \in DOMAIN s \cup {key} |->
        IF k = key
        THEN [ts |-> t,
              data |-> IF key \in DOMAIN s
                       THEN [data EXCEPT !.ts = s[key].data.ts] ELSE data]
        ELSE s[k]]

\* TTLCache.set(key, data) in store s at time t
Set(s, key, data, t) ==
    [k \in DOMAIN s \cup {key} |-> IF k = key THEN [ts |-> t, data |-> data] ELSE s[k]]

\* `if cached:`: None is falsy; a payload is a dict with keys, hence truthy
IsHit(cached) == cached # None

(***************************************************************************)
(* Cache keys                                                              *)
(***************************************************************************)

\* f"fx:{base}" with base already uppercased
FxKey(base) == << "f", "x", ":" >> \o Upper(base)

\* Variant of CgKey: the lists are joined in request order, unsorted
CgKeyUnsorted(coins, vs) ==
    << "c", "g", ":" >> \o Join(LowerAll(coins)) \o << "|" >> \o Join(LowerAll(vs))

\* f"cg:{','.join(sorted(coins))}|{','.join(sorted(vs))}" after lowercasing
CgKey(coins, vs) ==
    << "c", "g", ":" >> \o Join(Sorted(LowerAll(coins)))
        \o << "|" >> \o Join(Sorted(LowerAll(vs)))

KeyOf(r) ==
    IF r.route = "crypto" THEN CgKey(ParseList(r.coins), ParseList(r.vs))
    ELSE FxKey(r.base)

MaxAgeOf(r) == IF r.route = "crypto" THEN CG_MAX_AGE ELSE FX_MAX_AGE

(***************************************************************************)
(* Responses                                                               *)
(***************************************************************************)

Ok(body) == [status |-> HTTP_OK, body |-> body]
\* raise HTTPException(status_code=..., detail=...)
HttpError(code, detail, arg) ==
    [status |-> code, body |-> [detail |-> detail, arg |-> arg]]
\* an exception no handler catches: the framework answers 500
Unhandled(exc) == [status |-> HTTP_INTERNAL_ERROR, body |-> [exception |-> exc]]

FxPayload(base, rates, ts) == [base |-> base, rates |-> rates, ts |-> ts]
CgPayload(data, ts) == [data |-> data, ts |-> ts]

\* /rates: the aggregator's payload is the response body
RatesFinish(r, data) == Ok(data)

\* Variant of FxFinish: ts is the time of the /fx request, not of the rates
FxFinishStampedNow(r, data) ==
    LET to_up == Upper(r.to)
        rates == data.rates
    IN  IF ~SupportsIn(rates) THEN Unhandled("TypeError")
        ELSE IF ~In(to_up, rates)
             THEN HttpError(HTTP_BAD_REQUEST, "Unsupported target", to_up)
        ELSE IF ~IsNumber(rates.m[to_up]) THEN Unhandled("TypeError")
        ELSE Ok([base |-> Upper(r.base), to |-> to_up, rate |-> rates.m[to_up].n,
                 amount |-> r.amount, result |-> r.amount * rates.m[to_up].n,
                 ts |-> now])

\* /fx after get_fiat_rates returned data
FxFinish(r, data) ==
    LET to_up == Upper(r.to)
        rates == data.rates
    IN  IF ~SupportsIn(rates) THEN Unhandled("TypeError")
        ELSE IF ~In(to_up, rates)
             THEN HttpError(HTTP_BAD_REQUEST, "Unsupported target", to_up)
        ELSE IF ~IsNumber(rates.m[to_up]) THEN Unhandled("TypeError")
        ELSE Ok([base |-> Upper(r.base), to |-> to_up, rate |-> rates.m[to_up].n,
                 amount |-> r.amount, result |-> r.amount * rates.m[to_up].n,
                 ts |-> data.ts])

\* /crypto: the aggregator's payload is the response body
CryptoFinish(r, data) == Ok(data)

Finish(r, data) ==
    CASE r.route = "rates"  -> RatesFinish(r, data)
      [] r.route = "fx"     -> FxFinish(r, data)
      [] r.route = "crypto" -> CryptoFinish(r, data)

(***************************************************************************)
(* Initial state: the cache is empty and no request has arrived            *)
(***************************************************************************)

\* data is what the aggregator returned to the handler (None if it raised)
NoLast == [req |-> NoReq, resp |-> NoResp, obs |-> NoObs, data |-> None]

Init ==
    /\ now = 0
    /\ store = << >>
    /\ pc = [t \in Tasks |-> "idle"]
    /\ req = [t \in Tasks |-> NoReq]
    /\ obs = [t \in Tasks |-> NoObs]
    /\ last = NoLast
    /\ nreq = 0
    /\ served = << >>
    /\ writer = << >>

\* history update: key k now maps to v
Note(h, k, v) == [x \in DOMAIN h \cup {k} |-> IF x = k THEN v ELSE h[x]]

(***************************************************************************)
(* Steps shared by the handlers                                            *)
(***************************************************************************)

\* A new request gets a task of its own: the lowest task not in use
Accepts(t) ==
    /\ nreq < MaxReqs
    /\ pc[t] = "idle"
    /\ \A u \in Tasks : u < t => pc[u] # "idle"

\* Variant of Lookup: single flight; a miss for a key whose fetch is already in
\* flight waits for that fetch instead of issuing its own
LookupSingleFlight(t, r, key, max_age) ==
    LET cached == Get(store, key, max_age, now)
        inflight == \E u \in Tasks : pc[u] = "fetch" /\ obs[u].key = key
    IN  /\ Accepts(t)
        /\ nreq' = nreq + 1
        /\ IF IsHit(cached)
           THEN /\ last' = [req |-> r, resp |-> Finish(r, cached),
                            obs |-> [key |-> key, hit |-> TRUE, stale |-> NoTs,
                                     fetches |-> 0],
                            data |-> cached]
                /\ served' = Note(served, key, cached)
                /\ UNCHANGED << pc, req, obs >>
           ELSE /\ pc' = [pc EXCEPT ![t] = "fetch"]
                /\ req' = [req EXCEPT ![t] = r]
                /\ obs' = [obs EXCEPT ![t] =
                             [key |-> key, hit |-> FALSE,
                              stale |-> IF key \in DOMAIN store
                                        THEN store[key].ts ELSE NoTs,
                              fetches |-> IF inflight THEN 0 ELSE 1]]
                /\ UNCHANGED << last, served >>
        /\ UNCHANGED << now, store, writer >>

\* The part of an aggregator up to its first await: compute the key, read the
\* cache, return the cached payload on a hit, otherwise start the fetch.
Lookup(t, r, key, max_age) ==
    LET cached == Get(store, key, max_age, now)
    IN  /\ Accepts(t)
        /\ nreq' = nreq + 1
        /\ IF IsHit(cached)
           THEN /\ last' = [req |-> r, resp |-> Finish(r, cached),
                            obs |-> [key |-> key, hit |-> TRUE, stale |-> NoTs,
                                     fetches |-> 0],
                            data |-> cached]
                /\ served' = Note(served, key, cached)
                /\ UNCHANGED << pc, req, obs >>
           ELSE /\ pc' = [pc EXCEPT ![t] = "fetch"]
                /\ req' = [req EXCEPT ![t] = r]
                /\ obs' = [obs EXCEPT ![t] =
                             [key |-> key, hit |-> FALSE,
                              stale |-> IF key \in DOMAIN store
                                        THEN store[key].ts ELSE NoTs,
                              fetches |-> 1]]
                /\ UNCHANGED << last, served >>
        /\ UNCHANGED << now, store, writer >>

\* Task t ends: its request, response and record become the last finished one
Ends(t, response, data) ==
    /\ pc' = [pc EXCEPT ![t] = "idle"]
    /\ req' = [req EXCEPT ![t] = NoReq]
    /\ obs' = [obs EXCEPT ![t] = NoObs]
    /\ last' = [req |-> req[t], resp |-> response, obs |-> obs[t], data |-> data]
    /\ UNCHANGED nreq

\* Variant of Raise: a failure is retried once; the task stays suspended in a
\* second fetch
RaiseRetrying(t, response) ==
    IF obs[t].fetches < 2
    THEN /\ obs' = [obs EXCEPT ![t].fetches = obs[t].fetches + 1]
         /\ UNCHANGED << now, store, pc, req, last, nreq, served, writer >>
    ELSE /\ Ends(t, response, None)
         /\ UNCHANGED << now, store, served, writer >>

\* The request of task t ends with an error response; nothing else changes
Raise(t, response) ==
    /\ Ends(t, response, None)
    /\ UNCHANGED << now, store, served, writer >>

\* Variant of StoreAndFinish: the payload is cached only if the handler goes
\* on to answer with a success
StoreAndFinishIfOk(t, key, payload, d) ==
    /\ d = 0 \/ now + d \in Instants
    /\ now' = now + d
    /\ IF Finish(req[t], payload).status = HTTP_OK
       THEN /\ store' = Set(store, key, payload, now + d)
            /\ writer' = Note(writer, key, QueryOf(req[t]))
       ELSE UNCHANGED << store, writer >>
    /\ served' = Note(served, key, payload)
    /\ Ends(t, Finish(req[t], payload), payload)

\* The last lines of an aggregator: payload built with ts = int(time.time()),
\* then cache.set reads time.time() again (the clock may have moved on by d,
\* to another of the instants it is observed at), then the payload is returned
\* to the handler, which finishes the request.
StoreAndFinish(t, key, payload, d) ==
    /\ d = 0 \/ now + d \in Instants
    /\ now' = now + d
    /\ store' = Set(store, key, payload, now + d)
    /\ served' = Note(served, key, payload)
    /\ writer' = Note(writer, key, QueryOf(req[t]))
    /\ Ends(t, Finish(req[t], payload), payload)

\* The clock may advance between two reads of time.time() in one handler step
ClockDrift == {0, 1}

(***************************************************************************)
(* get_fiat_rates                                                          *)
(***************************************************************************)

\* `if not rates:` decides whether the provider's rates are usable
FiatRatesOk(rates) == Truthy(rates)

FiatLookup(t, r) == Lookup(t, r, FxKey(r.base), FX_MAX_AGE)

\* Variant of FiatResume: the fetch carries no timeout, so a task whose fetch
\* gets no response is never resumed with a failure
FiatResumeNoTimeout(t, out) ==
    LET r == req[t]
        base == Upper(r.base)
        key == FxKey(r.base)
    IN  /\ pc[t] = "fetch"
        /\ r.route \in {"rates", "fx"}
        /\ out.ok
        /\ IF ~IsDict(out.json) THEN Raise(t, Unhandled("AttributeError"))
           ELSE IF ~FiatRatesOk(DictGet(out.json, sRates))
                THEN Raise(t, HttpError(HTTP_BAD_GATEWAY, "No rates", << >>))
           ELSE \E d \in ClockDrift :
                    StoreAndFinish(t, key,
                        FxPayload(base, DictGet(out.json, sRates), now), d)

\* get_fiat_rates from `data = await fetch_json(url)` on
FiatResume(t, out) ==
    LET r == req[t]
        base == Upper(r.base)
        key == FxKey(r.base)
    IN  /\ pc[t] = "fetch"
        /\ r.route \in {"rates", "fx"}
        /\ IF ~out.ok THEN Raise(t, Unhandled("HTTPError"))
           ELSE IF ~IsDict(out.json) THEN Raise(t, Unhandled("AttributeError"))
           ELSE IF ~FiatRatesOk(DictGet(out.json, sRates))
                THEN Raise(t, HttpError(HTTP_BAD_GATEWAY, "No rates", << >>))
           ELSE \E d \in ClockDrift :
                    StoreAndFinish(t, key,
                        FxPayload(base, DictGet(out.json, sRates), now), d)

(***************************************************************************)
(* get_crypto_simple                                                       *)
(***************************************************************************)

\* Variant of CryptoDataOk: any JSON object passes, the empty one included
CryptoDataOkAnyDict(data) == IsDict(data)

\* `if not isinstance(data, dict) or not data:` negated
CryptoDataOk(data) == IsDict(data) /\ Truthy(data)

CryptoLookup(t, r) ==
    Lookup(t, r, CgKey(ParseList(r.coins), ParseList(r.vs)), CG_MAX_AGE)

\* get_crypto_simple from `data = await fetch_json(url)` on
CryptoResume(t, out) ==
    LET r == req[t]
        key == CgKey(ParseList(r.coins), ParseList(r.vs))
    IN  /\ pc[t] = "fetch"
        /\ r.route = "crypto"
        /\ IF ~out.ok THEN Raise(t, Unhandled("HTTPError"))
           ELSE IF ~CryptoDataOk(out.json)
                THEN Raise(t, HttpError(HTTP_BAD_GATEWAY, "No crypto data", << >>))
           ELSE \E d \in ClockDrift :
                    StoreAndFinish(t, key, CgPayload(out.json, now), d)

(***************************************************************************)
(* Actions: one per route handler step, plus the clock                     *)
(***************************************************************************)

\* Variant of HealthBody: health reports whether the cache holds anything
HealthBodyFromCache == [ok |-> DOMAIN store # {}, ts |-> now]

\* {"ok": True, "ts": int(time.time())}
HealthBody == [ok |-> TRUE, ts |-> now]

\* GET /health
Health(t) ==
    /\ Accepts(t)
    /\ nreq' = nreq + 1
    /\ last' = [req |-> HealthReq, resp |-> Ok(HealthBody), obs |-> NoObs,
                data |-> None]
    /\ UNCHANGED << now, store, pc, req, obs, served, writer >>

\* GET /rates?base=b, up to the cache read
RatesBegin(t) == \E b \in Bases : FiatLookup(t, RatesReq(b))

\* GET /fx?base=b&to=to&amount=a, up to the cache read
FxBegin(t) ==
    \E q \in FxQueries : FiatLookup(t, FxReq(q.base, q.to, q.amount))

\* GET /crypto?coins=c&vs=v, up to the cache read
CryptoBegin(t) ==
    \E q \in CryptoQueries : CryptoLookup(t, CryptoReq(q.coins, q.vs))

\* the exchange-rate provider answers (or the fetch fails) and /rates or /fx resumes
FiatFetchDone(t) == \E out \in FiatOutcomes : FiatResume(t, out)

\* the crypto-price provider answers (or the fetch fails) and /crypto resumes
CryptoFetchDone(t) == \E out \in CryptoOutcomes : CryptoResume(t, out)

\* time passes: the clock reaches the next instant it is observed at
Tick ==
    /\ \E i \in Instants :
          /\ i > now
          /\ \A j \in Instants : j > now => i <= j
          /\ now' = i
    /\ UNCHANGED << store, pc, req, obs, last, nreq, served, writer >>

Next ==
    \/ Tick
    \/ \E t \in Tasks : Health(t)
    \/ \E t \in Tasks : RatesBegin(t)
    \/ \E t \in Tasks : FxBegin(t)
    \/ \E t \in Tasks : CryptoBegin(t)
    \/ \E t \in Tasks : FiatFetchDone(t)
    \/ \E t \in Tasks : CryptoFetchDone(t)

Spec == Init /\ [][Next]_vars

\* The fetch of task t fails: fetch_json raises, at the latest when the
\* client's timeout elapses without a response
FetchFails(t) == FiatResume(t, FetchRaised) \/ CryptoResume(t, FetchRaised)

\* The event loop resumes a task whose fetch has failed, and the timeout makes
\* a fetch fail unless it is answered first; the providers owe no answer and
\* no client owes a request.
FairSpec == Spec /\ \A t \in Tasks : WF_vars(FetchFails(t))

\* /crypto queries whose ids or codes contain the key's own separator "|"
SeparatorQueries ==
    { [coins |-> << "b", "t", "c" >>,
       vs    |-> << "e", "t", "h", "|", "u", "s", "d" >>],
      [coins |-> << "b", "t", "c", "|", "e", "t", "h" >>,
       vs    |-> << "u", "s", "d" >>] }

\* GET /crypto?coins=c&vs=v with such a query, up to the cache read
SeparatorBegin(t) ==
    \E q \in SeparatorQueries : CryptoLookup(t, CryptoReq(q.coins, q.vs))

\* The service receiving /crypto requests of that kind only
SeparatorNext ==
    \/ Tick
    \/ \E t \in Tasks : SeparatorBegin(t)
    \/ \E t \in Tasks : CryptoFetchDone(t)

SeparatorSpec == Init /\ [][SeparatorNext]_vars

(***************************************************************************)
(* Vocabulary of the properties                                            *)
(***************************************************************************)

\* This step starts a request (it may finish it too, when no fetch is needed)
Started == nreq' = nreq + 1

\* This step finishes a request: one started and answered at once, or a
\* suspended task resumed
Completed ==
    \/ Started /\ pc' = pc
    \/ \E t \in Tasks : pc[t] = "fetch" /\ pc'[t] = "idle"

\* The task a starting step suspends in a fetch, and the started request
Suspended(t) == pc[t] = "idle" /\ pc'[t] = "fetch"
StartedReq ==
    IF pc' = pc THEN last'.req ELSE req'[CHOOSE t \in Tasks : Suspended(t)]

\* An entry for key k exists and is younger than max_age at time t
Fresh(k, max_age, t) == k \in DOMAIN store /\ t - store[k].ts < max_age

\* Two strings that differ at most in letter case
SameModCase(a, b) ==
    /\ Len(a) = Len(b)
    /\ \A i \in 1..Len(a) : LowerChar(a[i]) = LowerChar(b[i])

\* Two lists equal up to element order and letter case
SameModOrderAndCase(l1, l2) ==
    /\ Len(l1) = Len(l2)
    /\ \E f \in [1..Len(l1) -> 1..Len(l1)] :
          /\ \A i, j \in 1..Len(l1) : f[i] = f[j] => i = j
          /\ \A i \in 1..Len(l1) : SameModCase(l1[i], l2[f[i]])

\* A query q and a request r that ask the same aggregator for the same thing
SameQuery(q, r) ==
    IF q.route = "crypto"
    THEN /\ r.route = "crypto"
         /\ SameModOrderAndCase(ParseList(q.coins), ParseList(r.coins))
         /\ SameModOrderAndCase(ParseList(q.vs), ParseList(r.vs))
    ELSE /\ r.route \in {"rates", "fx"}
         /\ SameModCase(q.base, r.base)

(***************************************************************************)
(* C1.  TTLCache.get returns the stored payload if and only if an entry    *)
(* exists for the key and now - entry.timestamp < maxAge (strictly); in    *)
(* every other case it returns absent.  For every key, every maxAge and    *)
(* every reachable cache state.                                            *)
(***************************************************************************)

ProbeKeys == DOMAIN store \cup { FxKey(sEUR), << >> }
ProbeAges == { 0, 1, CG_MAX_AGE - 1, CG_MAX_AGE, FX_MAX_AGE - 1, FX_MAX_AGE }

C1_GetContract ==
    \A k \in ProbeKeys, a \in ProbeAges :
        LET got == Get(store, k, a, now)
        IN  /\ (k \in DOMAIN store /\ now - store[k].ts < a) => got = store[k].data
            /\ (k \notin DOMAIN store) => got = None
            /\ (k \in DOMAIN store /\ now - store[k].ts >= a) => got = None

\* an entry exactly max-age old: absent for that max-age, present for a larger one
C1_Witness ==
    \E k \in DOMAIN store :
        /\ now - store[k].ts = CG_MAX_AGE
        /\ Get(store, k, CG_MAX_AGE, now) = None
        /\ Get(store, k, FX_MAX_AGE, now) = store[k].data

(***************************************************************************)
(* C2.  Idempotence.  As claimed: any two identical requests that both     *)
(* succeed within one TTL window return identical payloads with the same   *)
(* ts, under every interleaving.  Stated on consecutive successes: when an *)
(* aggregator call for key k succeeds while the entry of k is still fresh, *)
(* it returns the payload the previous successful call for k returned.     *)
(***************************************************************************)

C2_IdempotentAlways ==
    [][ (Completed /\ last'.data # None)
            => LET k == last'.obs.key
               IN  (k \in DOMAIN served /\ Fresh(k, MaxAgeOf(last'.req), now'))
                      => last'.data = served[k] ]_vars

\* C2 as amended: the same, for a later request that is served from the
\* cache; a request that missed returns the payload it stores itself.
C2_IdempotentOnHit ==
    [][ (Completed /\ last'.data # None)
            => LET k == last'.obs.key
               IN  IF last'.obs.hit
                   THEN /\ k \in DOMAIN served
                        /\ last'.data = served[k]
                        /\ store' = store
                   ELSE /\ store'[k].data = last'.data
                        /\ served'[k] = last'.data ]_vars

\* a second request answered from the cache, later than the entry was written
C2_Witness ==
    /\ nreq >= 2
    /\ last.obs.hit
    /\ last.data # None
    /\ last.obs.key \in DOMAIN store
    /\ store[last.obs.key].data = last.data
    /\ now > last.data.ts

(***************************************************************************)
(* C3.  Cache-key normalization: requests equal up to element order and    *)
(* letter case (crypto) or up to the case of base (fiat) compute the same  *)
(* key; so once one of them has populated the cache, the other, issued     *)
(* within the TTL, is served from that entry without an upstream fetch.    *)
(***************************************************************************)

C3_KeyNormalization ==
    [][ (Started /\ StartedReq.route # "health")
            => \A k \in DOMAIN writer :
                  (SameQuery(writer[k], StartedReq)
                      /\ now - store[k].ts < MaxAgeOf(StartedReq))
                  => /\ pc' = pc
                     /\ last'.obs.key = k
                     /\ last'.obs.hit
                     /\ last'.obs.fetches = 0
                     /\ last'.data = store[k].data
                     /\ store' = store ]_vars

\* a crypto request served from the entry that a differently ordered and
\* differently cased request wrote
C3_Witness ==
    /\ last.req.route = "crypto"
    /\ last.obs.hit
    /\ last.obs.key \in DOMAIN writer
    /\ ParseList(writer[last.obs.key].coins) # ParseList(last.req.coins)
    /\ LowerAll(ParseList(writer[last.obs.key].coins))
          # LowerAll(ParseList(last.req.coins))
    /\ writer[last.obs.key].vs # last.req.vs

(***************************************************************************)
(* C4.  TTL expiry: a request that reads a key whose entry is at least     *)
(* max-age old treats it as absent and performs a fresh upstream fetch;    *)
(* on a valid response the entry is replaced by the new payload with a new *)
(* timestamp.                                                              *)
(***************************************************************************)

\* a JSON object with at least one key
NonEmptyMapping(j) == j.t = "map" /\ DOMAIN j.m # {}

\* the payload a valid upstream answer yields for request r, built at time t
PayloadFrom(r, out, t) ==
    IF r.route = "crypto" THEN [data |-> out.json, ts |-> t]
    ELSE [base |-> Upper(r.base), rates |-> out.json.m[sRates], ts |-> t]

ValidAnswer(r, out) ==
    /\ out.ok
    /\ NonEmptyMapping(out.json)
    /\ r.route # "crypto" =>
          (sRates \in DOMAIN out.json.m /\ NonEmptyMapping(out.json.m[sRates]))

C4_TtlExpiry ==
    [][ /\ (Started /\ StartedReq.route # "health")
            => LET k == KeyOf(StartedReq)
               IN  (k \in DOMAIN store /\ now - store[k].ts >= MaxAgeOf(StartedReq))
                     => \E t \in Tasks :
                           /\ Suspended(t)
                           /\ obs'[t].fetches = 1
                           /\ obs'[t].stale = store[k].ts
                           /\ store' = store
        /\ \A t \in Tasks :
              (pc[t] = "fetch" /\ pc'[t] = "idle" /\ obs[t].stale # NoTs)
                 => \A out \in FiatOutcomes \cup CryptoOutcomes :
                       ((FiatResume(t, out) \/ CryptoResume(t, out))
                            /\ ValidAnswer(req[t], out))
                       => /\ store'[obs[t].key].data = PayloadFrom(req[t], out, now)
                          /\ store'[obs[t].key].ts = now'
                          /\ store'[obs[t].key].ts
                                >= obs[t].stale + MaxAgeOf(req[t])
                          /\ last'.data = store'[obs[t].key].data ]_vars

\* a request found a stale entry, fetched, and its payload replaced the entry
C4_Witness ==
    /\ last.obs.stale # NoTs
    /\ last.obs.fetches = 1
    /\ last.data # None
    /\ store[last.obs.key].data = last.data
    /\ store[last.obs.key].ts >= last.data.ts
    /\ last.data.ts >= last.obs.stale + CG_MAX_AGE

(***************************************************************************)
(* C5.  Errors are not cached: whenever a request ends in an error caused  *)
(* by the upstream (fetch failure, or a response with missing, empty or    *)
(* invalid data), the cache store is exactly what it was before the fetch  *)
(* outcome was processed.                                                  *)
(***************************************************************************)

ServerErrors == { HTTP_INTERNAL_ERROR, HTTP_BAD_GATEWAY }

C5_ErrorsNotCached ==
    [][ \A t \in Tasks :
          (pc[t] = "fetch" /\ pc'[t] = "idle" /\ last'.resp.status \in ServerErrors)
             => store' = store ]_vars

(***************************************************************************)
(* C6.  Every upstream fetch failure (no connection, timeout, non-2xx      *)
(* status) during /rates, /fx or /crypto is surfaced to the client as a    *)
(* bad-gateway (502) response.                                             *)
(***************************************************************************)

C6_FetchFailureIs502 ==
    [][ \A t \in Tasks :
          (FiatResume(t, FetchRaised) \/ CryptoResume(t, FetchRaised))
             => last'.resp.status = HTTP_BAD_GATEWAY ]_vars

(***************************************************************************)
(* C7.  get_fiat_rates on a miss fails with 502 whenever the rates field   *)
(* of the upstream response is absent, null or an empty mapping, and       *)
(* returns a payload only when the rates mapping is non-empty.             *)
(***************************************************************************)

\* the rates field of a JSON object is absent, null or an empty mapping
NoUsableRates(j) ==
    \/ sRates \notin DOMAIN j.m
    \/ j.m[sRates].t = "null"
    \/ (j.m[sRates].t = "map" /\ DOMAIN j.m[sRates].m = {})

C7_FiatRatesValidated ==
    [][ \A t \in Tasks, out \in FiatOutcomes :
          (FiatResume(t, out) /\ out.ok /\ out.json.t = "map")
             => /\ NoUsableRates(out.json)
                    => (last'.resp.status = HTTP_BAD_GATEWAY /\ last'.data = None)
                /\ last'.data # None
                    => (sRates \in DOMAIN out.json.m
                           /\ NonEmptyMapping(out.json.m[sRates])) ]_vars

(***************************************************************************)
(* C8.  get_crypto_simple on a miss fails with 502 whenever the upstream   *)
(* response is not a non-empty key-value mapping (in particular {});       *)
(* /crypto never returns a success payload whose data is empty.            *)
(***************************************************************************)

C8_CryptoDataValidated ==
    [][ /\ \A t \in Tasks, out \in CryptoOutcomes :
              (CryptoResume(t, out) /\ out.ok /\ ~NonEmptyMapping(out.json))
                 => /\ last'.resp.status = HTTP_BAD_GATEWAY
                    /\ last'.data = None
                    /\ store' = store
        /\ (last'.req.route = "crypto" /\ last'.resp.status = HTTP_OK)
              => NonEmptyMapping(last'.resp.body.data) ]_vars

\* a /crypto request answered 502 "No crypto data" after its fetch returned
C8_Witness ==
    /\ last.req.route = "crypto"
    /\ last.obs.fetches = 1
    /\ last.resp = HttpError(HTTP_BAD_GATEWAY, "No crypto data", << >>)
    /\ last.obs.key \notin DOMAIN store

(***************************************************************************)
(* C9.  /fx answers 400, and never a success body with a null or missing   *)
(* rate or result, exactly when the rates for the base were obtained and   *)
(* the uppercased target is absent from the rates; whenever the target is  *)
(* present it answers with a success body.                                 *)
(***************************************************************************)

\* key is a key of the JSON value v
HasRate(v, key) == v.t = "map" /\ key \in DOMAIN v.m

C9_UnsupportedTarget ==
    [][ (Completed /\ last'.req.route = "fx")
          => LET obtained == last'.data # None
                 target == Upper(last'.req.to)
             IN  /\ last'.resp.status = HTTP_BAD_REQUEST
                      <=> (obtained /\ ~HasRate(last'.data.rates, target))
                 /\ (obtained /\ HasRate(last'.data.rates, target))
                      => last'.resp.status = HTTP_OK
                 /\ last'.resp.status = HTTP_OK
                      => /\ obtained
                         /\ HasRate(last'.data.rates, target)
                         /\ last'.resp.body.rate = last'.data.rates.m[target].n
                         /\ last'.resp.body.result
                               = last'.req.amount * last'.resp.body.rate ]_vars

(***************************************************************************)
(* C10.  /health returns {ok: true} in every reachable state, whatever the *)
(* cache holds and whatever the upstream providers do; it performs no      *)
(* upstream fetch and leaves the cache store unchanged.                    *)
(***************************************************************************)

C10_HealthAlwaysOk ==
    [][ /\ nreq < MaxReqs => ENABLED (\E t \in Tasks : Health(t))
        /\ (Started /\ StartedReq.route = "health")
              => /\ Completed
                 /\ last'.resp.status = HTTP_OK
                 /\ last'.resp.body.ok = TRUE
                 /\ last'.obs.fetches = 0
                 /\ store' = store
                 /\ pc' = pc /\ req' = req /\ obs' = obs ]_vars

\* /health answered ok while another request is suspended in its upstream fetch
C10_Witness ==
    /\ last.req.route = "health"
    /\ last.resp.status = HTTP_OK
    /\ last.resp.body.ok = TRUE
    /\ \E t \in Tasks : pc[t] = "fetch"

(***************************************************************************)
(* C11.  A successful /fx response has rate = rates[uppercased to] of the  *)
(* payload get_fiat_rates returned for the base, result = amount * rate,   *)
(* base and to uppercased, and ts equal to the ts of that payload: on a    *)
(* cache hit the ts of the cached payload, not the time of the request.    *)
(***************************************************************************)

C11_FxConversion ==
    [][ (Completed /\ last'.req.route = "fx" /\ last'.resp.status = HTTP_OK)
          => LET r == last'.req
                 payload == last'.data
                 body == last'.resp.body
                 k == FxKey(r.base)
             IN  /\ payload # None
                 /\ payload.base = Upper(r.base)
                 /\ Upper(r.to) \in DOMAIN payload.rates.m
                 /\ body.rate = payload.rates.m[Upper(r.to)].n
                 /\ body.amount = r.amount
                 /\ body.result = r.amount * body.rate
                 /\ body.base = Upper(r.base)
                 /\ body.to = Upper(r.to)
                 /\ body.ts = payload.ts
                 /\ last'.obs.hit => (payload = store[k].data
                                        /\ body.ts = store[k].data.ts)
                 /\ ~last'.obs.hit => body.ts = now ]_vars

\* /fx?base=usd&to=ngn&amount=100 answered from rates cached earlier: 100 * 1500
C11_Witness ==
    /\ last.req.route = "fx"
    /\ last.resp.status = HTTP_OK
    /\ last.obs.hit
    /\ last.resp.body.result = 150000
    /\ last.resp.body.to = sNGN
    /\ last.resp.body.base = sUSD
    /\ last.resp.body.ts < now

(***************************************************************************)
(* C12.  Under every interleaving of request tasks the cache holds one     *)
(* entry per key; a set for a key replaces that key's entry wholesale with *)
(* (current time, payload) and leaves every other key's entry unchanged;   *)
(* a read that hits returns exactly the payload of the most recent set for *)
(* that key, never a mixture of two writes.                                *)
(***************************************************************************)

C12_WholesaleReplace ==
    [][ /\ store' # store
            => \E t \in Tasks :
                  /\ pc[t] = "fetch" /\ pc'[t] = "idle"
                  /\ LET k == obs[t].key
                     IN  /\ DOMAIN store' = DOMAIN store \cup {k}
                         /\ store'[k] = [ts |-> now', data |-> last'.data]
                         /\ served'[k] = last'.data
                         /\ \A j \in DOMAIN store \ {k} : store'[j] = store[j]
        /\ \A k \in DOMAIN store : store[k].data = served[k]
        /\ (Completed /\ last'.obs.hit)
            => /\ last'.data = store[last'.obs.key].data
               /\ store' = store ]_vars

\* two keys are cached, one written at time 0 and kept as it was while the
\* other was written later
C12_Witness ==
    /\ \E j, k \in DOMAIN store : j # k
    /\ \E k \in DOMAIN store : store[k].ts > 0
    /\ \E k \in DOMAIN store : store[k].ts = 0

(***************************************************************************)
(* C13.  No operation removes a key from the cache: a get (hit, stale or   *)
(* missing) leaves the whole store unchanged, so a stale entry stays with  *)
(* its old timestamp and payload until a later set for the same key        *)
(* overwrites it; the set of keys present only grows.                      *)
(***************************************************************************)

C13_NoEviction ==
    [][ /\ DOMAIN store \subseteq DOMAIN store'
        /\ Started => store' = store
        /\ \A k \in DOMAIN store :
              store'[k] # store[k]
                 => \E t \in Tasks :
                       /\ pc[t] = "fetch" /\ pc'[t] = "idle"
                       /\ obs[t].key = k
                       /\ last'.data # None ]_vars

\* a request read a stale entry and its fetch failed: the entry is still there,
\* as old as it was
C13_Witness ==
    /\ last.obs.stale # NoTs
    /\ last.obs.fetches = 1
    /\ last.data = None
    /\ last.obs.key \in DOMAIN store
    /\ store[last.obs.key].ts = last.obs.stale
    /\ now - store[last.obs.key].ts >= MaxAgeOf(last.req)

(***************************************************************************)
(* C14.  Cache stampede: a request that misses the cache for a key while   *)
(* another request's fetch for the same key is in flight performs its own  *)
(* independent upstream fetch, so the fetches for one key within one TTL   *)
(* window are not bounded by one; each of them that succeeds writes the    *)
(* entry, so afterwards the cache holds the payload of whichever request   *)
(* wrote last.  That two such fetches are in flight at once is reachable   *)
(* (C14_Witness).                                                          *)
(***************************************************************************)

\* a fetch for key k is in flight
InFlight(k) == \E u \in Tasks : pc[u] = "fetch" /\ obs[u].key = k

C14_Stampede ==
    [][ /\ (Started /\ StartedReq.route # "health")
            => LET k == KeyOf(StartedReq)
               IN  (InFlight(k) /\ ~Fresh(k, MaxAgeOf(StartedReq), now))
                     => \E t \in Tasks :
                           /\ Suspended(t)
                           /\ obs'[t].key = k
                           /\ obs'[t].fetches = 1
                           /\ \A u \in Tasks \ {t} :
                                 pc'[u] = pc[u] /\ obs'[u] = obs[u]
        /\ \A t \in Tasks :
              (pc[t] = "fetch" /\ pc'[t] = "idle" /\ last'.data # None)
                 => /\ last'.obs.fetches = 1
                    /\ store'[obs[t].key].data = last'.data
                    /\ \A u \in Tasks \ {t} :
                          pc[u] = "fetch" => (pc'[u] = "fetch" /\ obs'[u].fetches = 1)
      ]_vars

\* two requests for the same key are both suspended in their own fetch
C14_Witness ==
    \E t, u \in Tasks :
        /\ t # u
        /\ pc[t] = "fetch" /\ pc[u] = "fetch"
        /\ obs[t].key = obs[u].key
        /\ obs[t].fetches = 1 /\ obs[u].fetches = 1

(***************************************************************************)
(* C15.  No retries: every request to /rates, /fx or /crypto performs at   *)
(* most one upstream fetch; exactly zero when its cache read hits; and     *)
(* when its single fetch fails the request ends in an error without a      *)
(* second fetch.                                                           *)
(***************************************************************************)

C15_NoRetries ==
    [][ /\ \A t \in Tasks :
              /\ obs[t].fetches <= 1
              /\ pc[t] = "fetch" => obs[t].fetches = 1
              /\ (pc[t] = "fetch" /\ obs'[t] # obs[t])
                    => (pc'[t] = "idle" /\ last'.obs = obs[t])
        /\ Completed
              => /\ last'.obs.fetches <= 1
                 /\ last'.obs.hit => last'.obs.fetches = 0
                 /\ (last'.req.route # "health" /\ ~last'.obs.hit)
                       => last'.obs.fetches = 1
        /\ \A t \in Tasks :
              (FiatResume(t, FetchRaised) \/ CryptoResume(t, FetchRaised))
                 => /\ pc'[t] = "idle"
                    /\ last'.req = req[t]
                    /\ last'.resp.status \in ServerErrors
                    /\ last'.data = None
                    /\ last'.obs.fetches = 1 ]_vars

\* a request whose one fetch failed has ended in an error, after one fetch
C15_Witness ==
    /\ last.req.route \in {"rates", "fx", "crypto"}
    /\ last.resp = Unhandled("HTTPError")
    /\ last.obs.fetches = 1
    /\ \A t \in Tasks : pc[t] = "idle"

(***************************************************************************)
(* C16.  Every request eventually completes with a success payload or an   *)
(* error: a fetch that gets no response ends as a fetch failure when its   *)
(* timeout elapses, so no task stays suspended forever; and a suspended    *)
(* task never prevents other request tasks from making progress.  Under    *)
(* FairSpec.                                                               *)
(***************************************************************************)

AnswerStatuses == { HTTP_OK, HTTP_BAD_REQUEST, HTTP_INTERNAL_ERROR, HTTP_BAD_GATEWAY }

\* whatever is suspended, a task is free to accept a new request (the one
\* guard of every route handler), so a handler can start, and every suspended
\* task can be resumed
NothingBlocked ==
    /\ nreq < MaxReqs
          => /\ \E t \in Tasks : Accepts(t)
             /\ ENABLED (\E t \in Tasks : Health(t))
             /\ ENABLED (\E t \in Tasks : RatesBegin(t))
             /\ ENABLED (\E t \in Tasks : FxBegin(t))
    /\ \A t \in Tasks :
          pc[t] = "fetch" => ENABLED (FiatFetchDone(t) \/ CryptoFetchDone(t))

C16_EventuallyCompletes ==
    /\ \A t \in Tasks : (pc[t] = "fetch") ~> (pc[t] = "idle")
    /\ [](NothingBlocked)
    /\ [](last.req.route # "none"
            => (last.resp.status \in AnswerStatuses
                   /\ (last.resp.status = HTTP_OK =>
                          (last.req.route = "health" \/ last.data # None))))

\* a request ended by the failure of its fetch while another is still suspended
C16_Witness ==
    /\ last.obs.fetches = 1
    /\ last.resp = Unhandled("HTTPError")
    /\ \E t \in Tasks : pc[t] = "fetch"

(***************************************************************************)
(* C17.  No partial results: every successful get_fiat_rates result, and   *)
(* every payload stored under an "fx:" key, has base equal to the          *)
(* uppercased requested base (the key's suffix), a non-empty rates mapping *)
(* and a ts; every successful get_crypto_simple result, and every payload  *)
(* stored under a "cg:" key, has a non-empty data mapping and a ts.  A     *)
(* request yields either such a complete payload or an error, never both   *)
(* and never an incomplete payload.                                        *)
(***************************************************************************)

IsFxKey(k) == Len(k) >= 3 /\ SubSeq(k, 1, 3) = << "f", "x", ":" >>
IsCgKey(k) == Len(k) >= 3 /\ SubSeq(k, 1, 3) = << "c", "g", ":" >>

\* payload p is a complete payload for key k
CompletePayload(k, p) ==
    IF IsFxKey(k)
    THEN /\ DOMAIN p = {"base", "rates", "ts"}
         /\ p.base = SubSeq(k, 4, Len(k))
         /\ NonEmptyMapping(p.rates)
         /\ p.ts \in Nat
    ELSE /\ IsCgKey(k)
         /\ DOMAIN p = {"data", "ts"}
         /\ NonEmptyMapping(p.data)
         /\ p.ts \in Nat

C17_NoPartialResults ==
    /\ \A k \in DOMAIN store : CompletePayload(k, store[k].data)
    /\ last.data # None
          => /\ CompletePayload(last.obs.key, last.data)
             /\ last.obs.key = KeyOf(last.req)
    /\ (last.req.route \in {"rates", "crypto"})
          => /\ last.resp.status = HTTP_OK <=> last.data # None
             /\ last.resp.status = HTTP_OK => last.resp.body = last.data
             /\ last.resp.status # HTTP_OK => last.resp.status \in ServerErrors

(***************************************************************************)
(* C18.  Cache keys are collision-free across distinct requests: two       *)
(* get_crypto_simple requests whose normalized sorted coin lists differ or *)
(* whose normalized sorted currency lists differ never compute the same    *)
(* key, also when an id or code contains "|" or ":", and no get_fiat_rates *)
(* key equals a get_crypto_simple key; hence no request is ever served a   *)
(* payload cached for a different request.  Under SeparatorSpec; stated on *)
(* what is served: the entry a request is answered from was written for a  *)
(* request with the same normalized lists (or the same base).              *)
(***************************************************************************)

C18_KeysCollisionFree ==
    [][ /\ \A k \in DOMAIN store :
              /\ IsCgKey(k) # IsFxKey(k)
              /\ IsCgKey(k) <=> writer[k].route = "crypto"
        /\ (Completed /\ last'.obs.hit)
              => /\ last'.obs.key \in DOMAIN writer
                 /\ SameQuery(writer[last'.obs.key], last'.req) ]_vars

(***************************************************************************)
(* C19.  Staleness bound, with an integer-valued clock.  As claimed: every *)
(* payload returned by get_fiat_rates satisfies now - payload.ts < 1800    *)
(* and every payload returned by get_crypto_simple now - payload.ts < 60   *)
(* at the moment it is returned, under every interleaving; and for every   *)
(* cache entry the payload's ts equals the entry's timestamp.              *)
(***************************************************************************)

C19_StalenessBound ==
    [][ /\ (Completed /\ last'.data # None)
              => now' - last'.data.ts < MaxAgeOf(last'.req)
        /\ \A k \in DOMAIN store' : store'[k].data.ts = store'[k].ts ]_vars

\* C19 as amended: the age that is bounded is the age of the entry, not of the
\* payload.  A returned payload comes from an entry younger than the max-age
\* by the entry's timestamp, or was built in this step; the payload's ts is
\* the clock when it was built and the entry's timestamp the clock when
\* cache.set ran, so they differ by what the clock advanced in between, and
\* the payload's own age may exceed the bound by that much.
C19_StalenessByEntry ==
    [][ /\ (Started /\ StartedReq.route # "health")
              => (Fresh(KeyOf(StartedReq), MaxAgeOf(StartedReq), now)
                     <=> (Completed /\ last'.obs.hit))
        /\ (Completed /\ last'.data # None)
              => LET k == last'.obs.key
                     e == store'[k]
                 IN  /\ e.data = last'.data
                     /\ now' - e.ts < MaxAgeOf(last'.req)
                     /\ now' - last'.data.ts
                           < MaxAgeOf(last'.req) + (e.ts - e.data.ts)
                     /\ ~last'.obs.hit
                           => /\ last'.data.ts = now
                              /\ e.ts = now'
        /\ \A k \in DOMAIN store' :
              /\ store'[k].data.ts <= store'[k].ts
              /\ store'[k].ts <= now' ]_vars

\* a payload served from the cache when its own ts is a full max-age old: the
\* clock moved between building it and storing it
C19_Witness ==
    /\ last.obs.hit
    /\ last.data # None
    /\ now - last.data.ts >= MaxAgeOf(last.req)
    /\ now - store[last.obs.key].ts < MaxAgeOf(last.req)
    /\ store[last.obs.key].data = last.data

(***************************************************************************)
(* C20.  A /fx request that ends with the 400 unsupported-target error     *)
(* after a cache miss still leaves the freshly fetched rates cached under  *)
(* "fx:" + BASE, so a following /rates or /fx request for the same base    *)
(* within 1800 s is served from the cache without an upstream fetch; the   *)
(* 400 error itself changes nothing in the cache.                          *)
(***************************************************************************)

C20_RatesCachedDespite400 ==
    [][ /\ (Completed /\ last'.resp.status = HTTP_BAD_REQUEST)
              => LET r == last'.req
                     k == FxKey(r.base)
                 IN  /\ r.route = "fx"
                     /\ last'.data # None
                     /\ last'.obs.key = k
                     /\ k = << "f", "x", ":" >> \o Upper(r.base)
                     /\ k \in DOMAIN store'
                     /\ store'[k].data = last'.data
                     /\ Upper(r.to) \notin DOMAIN last'.data.rates.m
                     /\ IF last'.obs.hit
                        THEN store' = store
                        ELSE /\ store'[k].ts = now'
                             /\ last'.data.rates = DictGet(
                                   (CHOOSE out \in FiatOutcomes :
                                       \E t \in Tasks : FiatResume(t, out)).json,
                                   sRates)
                             /\ \A j \in DOMAIN store \ {k} : store'[j] = store[j]
        /\ (Started /\ StartedReq.route \in {"rates", "fx"})
              => LET k == FxKey(StartedReq.base)
                 IN  (k \in DOMAIN store /\ now - store[k].ts < FX_MAX_AGE)
                       => /\ Completed
                          /\ last'.obs.hit
                          /\ last'.obs.fetches = 0
                          /\ last'.data = store[k].data
                          /\ store' = store ]_vars

\* /fx?base=USD&to=ZZZ missed the cache, fetched rates without ZZZ, answered
\* 400, and the rates it fetched are cached under fx:USD
C20_Witness ==
    /\ last.req.route = "fx"
    /\ last.resp = HttpError(HTTP_BAD_REQUEST, "Unsupported target", sZZZ)
    /\ last.obs.fetches = 1
    /\ FxKey(sUSD) \in DOMAIN store
    /\ store[FxKey(sUSD)].data = last.data
    /\ NonEmptyMapping(last.data.rates)

====
